---- MODULE Spec2Model ----
(***************************************************************************)
(* Model of scripts/count-failures-dirs.py: a filter that reads lines from *)
(* standard input, keeps the lines starting with "case", tallies them by   *)
(* the directory of their path token, and prints the tally from the least  *)
(* to the most frequent directory.                                         *)
(*                                                                         *)
(* A string is modelled as a sequence of one-character strings, so that    *)
(* startswith, split, dirname and format are computed character by         *)
(* character, as the Python runtime computes them.                         *)
(***************************************************************************)
EXTENDS Integers, Sequences, FiniteSets, TLC

VARIABLES
    input,   \* sys.stdin: the sequence of lines the process is given
    pos,     \* index of the line the "for line in sys.stdin" loop reads next
    pc,      \* "reading" | "reporting" | "done" | "failed"
    dirs,    \* the Counter: <<key, count>> entries in insertion order
    items,   \* what is left of reversed(dirs.most_common()) in the report loop
    out,     \* sys.stdout: the lines printed so far
    err,     \* the exception that ended the run, or "none"
    run,     \* number of the current process invocation
    prev     \* outcome of the previous invocation on the same input

vars == <<input, pos, pc, dirs, items, out, err, run, prev>>

-----------------------------------------------------------------------------
(* Bounds *)

MaxLen == 3     \* number of input lines, drawn from all of Lines
MaxTallyLen == 6   \* number of input lines, drawn from TallyLines
MaxRuns == 2    \* invocations of the program on the same input

-----------------------------------------------------------------------------
(* Characters and the input lines *)

Whitespace == {" ", "\t", "\n", "\r"}

Sep == "/"

Prefix == <<"c", "a", "s", "e">>

NL == <<"\n">>

\* Lines as sys.stdin yields them: each keeps its line terminator.
LineABX == Prefix \o <<" ", "a", "/", "b", "/", "x">> \o NL      \* "case a/b/x"
LineABY == Prefix \o <<" ", "a", "/", "b", "/", "y">> \o NL      \* "case a/b/y"
LineACZ == Prefix \o <<" ", "a", "/", "c", "/", "z">> \o NL      \* "case a/c/z"
LineF == Prefix \o <<" ", "f">> \o NL                            \* "case f"
LineG == Prefix \o <<" ", "g">> \o NL                            \* "case g"
LineRootH == Prefix \o <<"\t", "/", "h">> \o NL                  \* "case<TAB>/h"

LineCaseOnly == Prefix \o NL                                     \* "case"
LineCaseAB == Prefix \o <<" ", "a", " ", "b">> \o NL              \* "case a b"
LineCases == Prefix \o <<"s", " ", "a", "/", "b">> \o NL          \* "cases a/b"

LineNotCase == <<"n", "o", "t">> \o Prefix \o <<" ", "a", "/", "b">> \o NL   \* "notcase a/b"
LineIndented == <<" ">> \o Prefix \o <<" ", "a", "/", "b">> \o NL           \* " case a/b"
LineBlank == NL                                                              \* ""

WellFormedLines == { LineABX, LineABY, LineACZ, LineF, LineG, LineRootH }

MalformedLines == { LineCaseOnly, LineCaseAB, LineCases }

OtherLines == { LineNotCase, LineIndented, LineBlank }

Lines == WellFormedLines \cup MalformedLines \cup OtherLines

RECURSIVE SeqsUpTo(_, _)
SeqsUpTo(S, n) ==
    IF n = 0 THEN { <<>> }
    ELSE LET shorter == SeqsUpTo(S, n - 1)
         IN  shorter \cup { Append(s, x) : s \in { t \in shorter : Len(t) = n - 1 }, x \in S }

\* three directories (a/b, a/c and the empty one) for the longer inputs, on
\* which the counts of the report can all differ
TallyLines == { LineABX, LineACZ, LineF }

Inputs == SeqsUpTo(Lines, MaxLen) \cup SeqsUpTo(TallyLines, MaxTallyLen)

-----------------------------------------------------------------------------
(* str.startswith, str.split, os.path.dirname *)

\* Fault variant of StartsWith: the line is stripped of leading whitespace
\* before the comparison, as line.lstrip().startswith('case') would.
RECURSIVE LStrip(_)
LStrip(line) ==
    IF line # <<>> /\ Head(line) \in Whitespace THEN LStrip(Tail(line)) ELSE line

StartsWith_stripped(line, p) ==
    /\ Len(LStrip(line)) >= Len(p)
    /\ SubSeq(LStrip(line), 1, Len(p)) = p

\* line.startswith('case')
StartsWith(line, p) ==
    /\ Len(line) >= Len(p)
    /\ SubSeq(line, 1, Len(p)) = p

\* str.split() with no argument: the maximal runs of non-whitespace
\* characters, in order; leading and trailing whitespace yields no token.
RECURSIVE SplitFrom(_, _, _, _)
SplitFrom(line, i, cur, acc) ==
    IF i > Len(line)
    THEN IF cur = <<>> THEN acc ELSE Append(acc, cur)
    ELSE IF line[i] \in Whitespace
         THEN SplitFrom(line, i + 1, <<>>, IF cur = <<>> THEN acc ELSE Append(acc, cur))
         ELSE SplitFrom(line, i + 1, Append(cur, line[i]), acc)

Split(line) == SplitFrom(line, 1, <<>>, <<>>)

\* p.rfind('/') + 1: the index of the last separator, 0 when there is none
RFindSep(p) ==
    LET at == { i \in 1..Len(p) : p[i] = Sep }
    IN  IF at = {} THEN 0 ELSE CHOOSE i \in at : \A j \in at : j <= i

\* head.rstrip('/')
RECURSIVE RStripSep(_)
RStripSep(s) ==
    IF s # <<>> /\ s[Len(s)] = Sep THEN RStripSep(SubSeq(s, 1, Len(s) - 1)) ELSE s

\* Fault variant of Dirname: the head keeps the separator that ends it,
\* as p[:p.rfind('/') + 1] alone would.
Dirname_keepSep(p) == SubSeq(p, 1, RFindSep(p))

\* os.path.dirname (posixpath): head = p[:rfind('/')+1], stripped of its
\* trailing separators unless it consists of separators only.
Dirname(p) ==
    LET head == SubSeq(p, 1, RFindSep(p))
    IN  IF head # <<>> /\ (\E i \in 1..Len(head) : head[i] # Sep)
        THEN RStripSep(head)
        ELSE head

-----------------------------------------------------------------------------
(* collections.Counter *)

Keys(d) == { d[i][1] : i \in 1..Len(d) }

\* dirs[dir]: the count of a key, 0 for a key that is absent
Get(d, k) ==
    IF k \in Keys(d) THEN d[CHOOSE i \in 1..Len(d) : d[i][1] = k][2] ELSE 0

\* Fault variant of Increment: an assignment, dirs[dir] = 1, in place of
\* the increment.
Increment_assign(d, k) ==
    IF k \in Keys(d)
    THEN [ i \in 1..Len(d) |-> IF d[i][1] = k THEN <<k, 1>> ELSE d[i] ]
    ELSE Append(d, <<k, 1>>)

\* dirs[dir] += 1 : a present key keeps its place, a new key goes last
Increment(d, k) ==
    IF k \in Keys(d)
    THEN [ i \in 1..Len(d) |-> IF d[i][1] = k THEN <<k, d[i][2] + 1>> ELSE d[i] ]
    ELSE Append(d, <<k, 1>>)

\* One step of a stable descending sort: e goes after every entry whose
\* count is greater than or equal to its own.
RECURSIVE InsertDesc(_, _)
InsertDesc(sorted, e) ==
    IF sorted = <<>> THEN <<e>>
    ELSE IF Head(sorted)[2] >= e[2]
         THEN <<Head(sorted)>> \o InsertDesc(Tail(sorted), e)
         ELSE <<e>> \o sorted

\* Counter.most_common(): sorted(items, key=count, reverse=True), which is
\* stable: entries of equal count stay in insertion order.
RECURSIVE MostCommonFrom(_, _, _)
MostCommonFrom(d, i, acc) ==
    IF i > Len(d) THEN acc ELSE MostCommonFrom(d, i + 1, InsertDesc(acc, d[i]))

\* Fault variants of most_common. The first breaks ties the other way
\* round, as a sort that is not stable, or sorted(...)[::-1] on an ascending
\* sort, would; the second breaks them differently from one process to the
\* next, as iteration over a set of keys under hash randomisation would.
RECURSIVE InsertDescStrict(_, _)
InsertDescStrict(sorted, e) ==
    IF sorted = <<>> THEN <<e>>
    ELSE IF Head(sorted)[2] > e[2]
         THEN <<Head(sorted)>> \o InsertDescStrict(Tail(sorted), e)
         ELSE <<e>> \o sorted

RECURSIVE MostCommonStrictFrom(_, _, _)
MostCommonStrictFrom(d, i, acc) ==
    IF i > Len(d) THEN acc ELSE MostCommonStrictFrom(d, i + 1, InsertDescStrict(acc, d[i]))

most_common_tiesReversed(d) == MostCommonStrictFrom(d, 1, <<>>)

most_common_hashOrder(d) ==
    IF run % 2 = 1 THEN MostCommonFrom(d, 1, <<>>) ELSE MostCommonStrictFrom(d, 1, <<>>)

most_common(d) == MostCommonFrom(d, 1, <<>>)

\* Fault variant of Reversed: the call to reversed() left out.
Reversed_omitted(s) == s

\* reversed(...)
Reversed(s) == [ i \in 1..Len(s) |-> s[Len(s) + 1 - i] ]

-----------------------------------------------------------------------------
(* '{:6} {}'.format(count, dir) and print *)

FieldWidth == 6

DigitChars == <<"0", "1", "2", "3", "4", "5", "6", "7", "8", "9">>

RECURSIVE Digits(_)
Digits(n) ==
    IF n < 10 THEN <<DigitChars[n + 1]>>
    ELSE Digits(n \div 10) \o <<DigitChars[(n % 10) + 1]>>

\* {:6} on an integer: right-aligned, padded with spaces to the width,
\* never truncated.
PadLeft(s, w) ==
    IF Len(s) >= w THEN s ELSE [ i \in 1..(w - Len(s)) |-> " " ] \o s

\* the line print() writes, terminator included
Format(count, dir) == PadLeft(Digits(count), FieldWidth) \o <<" ">> \o dir \o NL

-----------------------------------------------------------------------------
(* The body of the input loop on one line *)

\* Fault variants of ProcessLine. skipMalformed passes over a case line
\* that does not parse instead of raising; noFilter splits every line,
\* without the startswith test; noAssert leaves the tag unchecked.
ProcessLine_skipMalformed(d, line) ==
    IF ~StartsWith(line, Prefix)
    THEN [status |-> "continue", dirs |-> d]
    ELSE LET toks == Split(line)
         IN  IF Len(toks) # 2 \/ toks[1] # Prefix
             THEN [status |-> "continue", dirs |-> d]
             ELSE [status |-> "counted", dirs |-> Increment(d, Dirname(toks[2]))]

ProcessLine_noFilter(d, line) ==
    LET toks == Split(line)
    IN  IF Len(toks) # 2
        THEN [status |-> "ValueError", dirs |-> d]
        ELSE IF toks[1] # Prefix
             THEN [status |-> "AssertionError", dirs |-> d]
             ELSE [status |-> "counted", dirs |-> Increment(d, Dirname(toks[2]))]

ProcessLine_noAssert(d, line) ==
    IF ~StartsWith(line, Prefix)
    THEN [status |-> "continue", dirs |-> d]
    ELSE LET toks == Split(line)
         IN  IF Len(toks) # 2
             THEN [status |-> "ValueError", dirs |-> d]
             ELSE [status |-> "counted", dirs |-> Increment(d, Dirname(toks[2]))]

ProcessLine(d, line) ==
    IF ~StartsWith(line, Prefix)
    THEN [status |-> "continue", dirs |-> d]
    ELSE LET toks == Split(line)
         IN  IF Len(toks) # 2
             THEN [status |-> "ValueError", dirs |-> d]
             ELSE IF toks[1] # Prefix
                  THEN [status |-> "AssertionError", dirs |-> d]
                  ELSE [status |-> "counted", dirs |-> Increment(d, Dirname(toks[2]))]

Errors == {"ValueError", "AssertionError"}

-----------------------------------------------------------------------------
(* The state machine *)

NoPrev == [pc |-> "none", out |-> <<>>, err |-> "none"]

Init ==
    /\ input \in Inputs
    /\ pos = 1
    /\ pc = "reading"
    /\ dirs = <<>>
    /\ items = <<>>
    /\ out = <<>>
    /\ err = "none"
    /\ run = 1
    /\ prev = NoPrev

\* Fault variant of ReadLine: the count of a line is printed as soon as
\* the line is counted, before the input is exhausted.
ReadLine_streaming ==
    /\ pc = "reading"
    /\ pos <= Len(input)
    /\ LET r == ProcessLine(dirs, input[pos])
       IN  IF r.status \in Errors
           THEN /\ pc' = "failed"
                /\ err' = r.status
                /\ UNCHANGED <<pos, dirs, out>>
           ELSE /\ dirs' = r.dirs
                /\ pos' = pos + 1
                /\ out' = IF r.status = "counted"
                          THEN Append(out, Format(Len(r.dirs), <<>>))
                          ELSE out
                /\ UNCHANGED <<pc, err>>
    /\ UNCHANGED <<input, items, run, prev>>

\* one iteration of "for line in sys.stdin"
ReadLine ==
    /\ pc = "reading"
    /\ pos <= Len(input)
    /\ LET r == ProcessLine(dirs, input[pos])
       IN  IF r.status \in Errors
           THEN /\ pc' = "failed"
                /\ err' = r.status
                /\ UNCHANGED <<pos, dirs>>
           ELSE /\ dirs' = r.dirs
                /\ pos' = pos + 1
                /\ UNCHANGED <<pc, err>>
    /\ UNCHANGED <<input, items, out, run, prev>>

\* sys.stdin is exhausted: the report loop starts on reversed(dirs.most_common())
EndOfInput ==
    /\ pc = "reading"
    /\ pos > Len(input)
    /\ items' = Reversed(most_common(dirs))
    /\ pc' = "reporting"
    /\ UNCHANGED <<input, pos, dirs, out, err, run, prev>>

\* one iteration of the report loop
PrintLine ==
    /\ pc = "reporting"
    /\ items # <<>>
    /\ out' = Append(out, Format(Head(items)[2], Head(items)[1]))
    /\ items' = Tail(items)
    /\ UNCHANGED <<input, pos, pc, dirs, err, run, prev>>

\* the report loop is over: the process exits with status 0
Exit ==
    /\ pc = "reporting"
    /\ items = <<>>
    /\ pc' = "done"
    /\ UNCHANGED <<input, pos, dirs, items, out, err, run, prev>>

\* the program is invoked again on the same input: nothing persists
Restart ==
    /\ pc \in {"done", "failed"}
    /\ run < MaxRuns
    /\ prev' = [pc |-> pc, out |-> out, err |-> err]
    /\ run' = run + 1
    /\ pos' = 1
    /\ pc' = "reading"
    /\ dirs' = <<>>
    /\ items' = <<>>
    /\ out' = <<>>
    /\ err' = "none"
    /\ UNCHANGED input

Next == ReadLine \/ EndOfInput \/ PrintLine \/ Exit \/ Restart

Spec == Init /\ [][Next]_vars

TypeOK ==
    /\ input \in Inputs
    /\ pos \in 1..(Len(input) + 1)
    /\ pc \in {"reading", "reporting", "done", "failed"}
    /\ err \in Errors \cup {"none"}
    /\ run \in 1..MaxRuns

-----------------------------------------------------------------------------
(* The whole run as a function of the input lines *)

\* the input loop over lines[i..], from tally d: the tally at the end of
\* the stream, or the exception and the index of the line that raised it
RECURSIVE TallyFrom(_, _, _)
TallyFrom(d, lines, i) ==
    IF i > Len(lines) THEN [status |-> "eof", dirs |-> d, at |-> i]
    ELSE LET r == ProcessLine(d, lines[i])
         IN  IF r.status \in Errors
             THEN [status |-> r.status, dirs |-> d, at |-> i]
             ELSE TallyFrom(r.dirs, lines, i + 1)

\* what the report loop prints for a tally
ReportOf(d) ==
    LET its == Reversed(most_common(d))
    IN  [ i \in 1..Len(its) |-> Format(its[i][2], its[i][1]) ]

\* final state and output of a run over lines
RunOf(lines) ==
    LET t == TallyFrom(<<>>, lines, 1)
    IN  IF t.status \in Errors
        THEN [pc |-> "failed", out |-> <<>>, err |-> t.status]
        ELSE [pc |-> "done", out |-> ReportOf(t.dirs), err |-> "none"]

-----------------------------------------------------------------------------
(* Vocabulary of the properties, stated on the text of the input and of    *)
(* the output rather than on the program's own intermediate values.        *)

\* the line starts with the literal characters c, a, s, e
HasCasePrefix(line) ==
    /\ Len(line) >= 4
    /\ line[1] = "c" /\ line[2] = "a" /\ line[3] = "s" /\ line[4] = "e"

\* the whitespace-delimited tokens of a line are exactly "case" and a path
TwoTokenShape(line) ==
    /\ Len(Split(line)) = 2
    /\ Split(line)[1] = <<"c", "a", "s", "e">>

Malformed(line) == HasCasePrefix(line) /\ ~TwoTokenShape(line)

PathOf(line) == Split(line)[2]

CaseIdx(n) == { i \in 1..n : i <= Len(input) /\ HasCasePrefix(input[i]) }

WellFormedInput == \A i \in 1..Len(input) : ~Malformed(input[i])

\* index of the first malformed line of the input, 0 when there is none
FirstMalformed ==
    LET bad == { i \in 1..Len(input) : Malformed(input[i]) }
    IN  IF bad = {} THEN 0 ELSE CHOOSE i \in bad : \A j \in bad : i <= j

RECURSIVE TallySum(_)
TallySum(d) == IF d = <<>> THEN 0 ELSE Head(d)[2] + TallySum(Tail(d))

\* A printed line read back: blanks, the decimal count, one blank, the
\* directory, the line terminator.
FirstNonBlank(l) == CHOOSE i \in 1..Len(l) : l[i] # " " /\ \A j \in 1..(i - 1) : l[j] = " "

CountEnd(l) == CHOOSE i \in FirstNonBlank(l)..Len(l) :
                   l[i] = " " /\ \A j \in FirstNonBlank(l)..(i - 1) : l[j] # " "

DigitValue(c) == CHOOSE v \in 0..9 : DigitChars[v + 1] = c

RECURSIVE DecimalValue(_)
DecimalValue(s) ==
    IF s = <<>> THEN 0
    ELSE 10 * DecimalValue(SubSeq(s, 1, Len(s) - 1)) + DigitValue(s[Len(s)])

PrintedCount(l) == DecimalValue(SubSeq(l, FirstNonBlank(l), CountEnd(l) - 1))

PrintedDir(l) == SubSeq(l, CountEnd(l) + 1, Len(l) - 1)

DirAB == <<"a", "/", "b">>
DirAC == <<"a", "/", "c">>

-----------------------------------------------------------------------------
(* Properties *)

\* C1: on an input whose case lines are all well-formed the run does not
\* fail, and when it is done the report holds exactly one line per distinct
\* directory key of the case lines, whose printed count is the number of
\* case lines with that key.
C1_GroupedCounts ==
    /\ pc = "failed" => ~WellFormedInput
    /\ pc = "done" =>
         LET idx == CaseIdx(Len(input))
             keyOf == [ i \in idx |-> Dirname(PathOf(input[i])) ]
             ks == { keyOf[i] : i \in idx }
         IN  /\ Len(out) = Cardinality(ks)
             /\ \A k \in ks :
                  \E n \in 1..Len(out) :
                     /\ PrintedDir(out[n]) = k
                     /\ PrintedCount(out[n]) = Cardinality({ i \in idx : keyOf[i] = k })

\* C1 witness: case a/b/x, case a/b/y, case a/c/z reported as a/b -> 2, a/c -> 1
C1_Witness ==
    /\ pc = "done"
    /\ input = <<LineABX, LineACZ, LineABY>>
    /\ \E m, n \in 1..Len(out) :
         /\ PrintedDir(out[m]) = DirAB /\ PrintedCount(out[m]) = 2
         /\ PrintedDir(out[n]) = DirAC /\ PrintedCount(out[n]) = 1

\* C2: the printed counts never decrease from one output line to the next.
C2_AscendingCounts ==
    \A n \in 1..(Len(out) - 1) : PrintedCount(out[n]) <= PrintedCount(out[n + 1])

\* C2 witness: counts a/b -> 3, a/c -> 1, empty -> 2, tallied in that
\* order, are printed a/c, then the empty key, then a/b
C2_Witness ==
    /\ pc = "done"
    /\ dirs = << <<DirAB, 3>>, <<DirAC, 1>>, << <<>>, 2>> >>
    /\ Len(out) = 3
    /\ PrintedDir(out[1]) = DirAC /\ PrintedCount(out[1]) = 1
    /\ PrintedDir(out[2]) = <<>> /\ PrintedCount(out[2]) = 2
    /\ PrintedDir(out[3]) = DirAB /\ PrintedCount(out[3]) = 3

\* C3: when the input has a malformed case line, the run never reads past
\* the first one, never counts it, never reaches the report or the success
\* state, and when it has stopped it has stopped at that line with an
\* exception; at that line the only step is the failing one.
C3_FailFast ==
    LET m == FirstMalformed
    IN  m > 0 =>
          /\ pos <= m
          /\ pc \in {"reading", "failed"}
          /\ TallySum(dirs) = Cardinality(CaseIdx(pos - 1))
          /\ pc = "failed" => pos = m /\ err \in Errors
          /\ (pc = "reading" /\ pos = m) => ENABLED ReadLine /\ ~ENABLED EndOfInput

\* C3 witness: a run stopped at a malformed line that follows counted lines
\* and precedes a line that is never read
C3_Witness ==
    /\ pc = "failed"
    /\ pos = 2
    /\ Len(input) = 3
    /\ dirs # <<>>
    /\ HasCasePrefix(input[3])

\* s without its i-th element
RemoveAt(s, i) == SubSeq(s, 1, i - 1) \o SubSeq(s, i + 1, Len(s))

\* C4: lines that do not start with the characters c, a, s, e have no
\* effect: at every point the tally is the tally of the case lines read so
\* far alone, a run never fails on such a line, and the outcome of a
\* finished run (success or failure, and the output line for line) is the
\* outcome on the same input with any one such line removed.
C4_NonCaseIgnored ==
    /\ dirs = TallyFrom(<<>>, SelectSeq(SubSeq(input, 1, pos - 1), HasCasePrefix), 1).dirs
    /\ pc = "failed" => HasCasePrefix(input[pos])
    /\ pc \in {"done", "failed"} =>
         \A i \in 1..Len(input) :
            ~HasCasePrefix(input[i]) =>
               RunOf(RemoveAt(input, i)) = [pc |-> pc, out |-> out, err |-> err]

\* C4 witness: a finished report over an input with a line without the
\* prefix between two counted lines
C4_Witness ==
    /\ pc = "done"
    /\ Len(input) = 3
    /\ HasCasePrefix(input[1]) /\ ~HasCasePrefix(input[2]) /\ HasCasePrefix(input[3])
    /\ input[2] \in {LineNotCase, LineIndented}
    /\ out # <<>>

\* k is the path p with its final segment removed: the part before the last
\* separator, without the separators that end it, or that part as it is
\* when it holds separators only (the root); empty when p has no separator.
SegmentRemoved(p, k) ==
    \E i \in 0..Len(p) :
       /\ i = 0 \/ p[i] = "/"
       /\ \A j \in (i + 1)..Len(p) : p[j] # "/"
       /\ IF \A j \in 1..i : p[j] = "/"
          THEN k = SubSeq(p, 1, i)
          ELSE \E m \in 1..i :
                  /\ k = SubSeq(p, 1, m)
                  /\ p[m] # "/"
                  /\ \A j \in (m + 1)..i : p[j] = "/"

BareFilename(p) == \A j \in 1..Len(p) : p[j] # "/"

\* C5: every key of the tally is the path of a counted line with its final
\* segment removed, and its count is the number of counted lines whose path
\* gives that key; a counted a/b/x is under a/b; the bare filenames are all
\* under the empty key, whose count is their number.
C5_DirectoryKey ==
    LET idx == CaseIdx(pos - 1)
        path == [ i \in idx |-> PathOf(input[i]) ]
    IN  /\ \A i \in idx : \E k \in Keys(dirs) : SegmentRemoved(path[i], k)
        /\ \A k \in Keys(dirs) :
              Get(dirs, k) = Cardinality({ i \in idx : SegmentRemoved(path[i], k) })
        /\ \A i \in idx : input[i] = LineABX => DirAB \in Keys(dirs)
        /\ Get(dirs, <<>>) = Cardinality({ i \in idx : BareFilename(path[i]) })

\* C5 witness: two different bare filenames and a/b/x counted
C5_Witness ==
    /\ pc = "done"
    /\ input = <<LineF, LineABX, LineG>>
    /\ Get(dirs, <<>>) = 2
    /\ Get(dirs, DirAB) = 1

\* C6: output exists only once the whole input has been read and the report
\* loop has started; a run that is reading or has failed has printed nothing.
C6_NoEarlyOutput ==
    /\ out # <<>> => pos = Len(input) + 1 /\ pc \in {"reporting", "done"}
    /\ pc \in {"reading", "failed"} => out = <<>>

\* C6 witness: a run failed after well-formed case lines, with no output
C6_Witness ==
    /\ pc = "failed"
    /\ pos = 3
    /\ Len(dirs) = 2
    /\ out = <<>>

NoCaseInput == \A i \in 1..Len(input) : ~HasCasePrefix(input[i])

\* C7: on an input without any case line (the empty input included) the run
\* never fails, never tallies or prints anything, and is done or can take a
\* further step of the program.
C7_EmptyInput ==
    NoCaseInput =>
      /\ pc # "failed"
      /\ dirs = <<>>
      /\ out = <<>>
      /\ pc = "done" \/ ENABLED (ReadLine \/ EndOfInput \/ PrintLine \/ Exit)

\* C7 witness: the run over zero input lines is done with empty output
C7_Witness ==
    /\ pc = "done"
    /\ input = <<>>
    /\ out = <<>>

C9_TallyInvariant ==
    LET idx == CaseIdx(pos - 1)
    IN  /\ TallySum(dirs) = Cardinality(idx)
        /\ \A i \in idx : TwoTokenShape(input[i]) /\ input[i][5] \in Whitespace
        /\ \A n \in 1..Len(dirs) : dirs[n][2] >= 1

\* C9 witness: in the middle of the input pass, after a skipped line and two
\* counted lines of the same directory
C9_Witness ==
    /\ pc = "reading"
    /\ pos = 4
    /\ ~HasCasePrefix(input[2])
    /\ Len(dirs) = 1
    /\ TallySum(dirs) = 2

\* index of the first case line whose directory key is k
FirstSeen(k) ==
    LET at == { i \in CaseIdx(Len(input)) : Dirname(PathOf(input[i])) = k }
    IN  CHOOSE i \in at : \A j \in at : i <= j

\* C10: of two printed keys with equal counts, the one whose first case
\* line comes later in the input is printed first.
C10_TiesReverseFirstSeen ==
    pc \in {"reporting", "done"} =>
        \A m, n \in 1..Len(out) :
           (m < n /\ PrintedCount(out[m]) = PrintedCount(out[n])) =>
               FirstSeen(PrintedDir(out[m])) > FirstSeen(PrintedDir(out[n]))

\* C10 witness: a/b first seen before a/c, two lines each and interleaved
\* with a more frequent key: a/c is printed before a/b
C10_Witness ==
    /\ pc = "done"
    /\ input = <<LineF, LineABX, LineACZ, LineF, LineACZ, LineABX>>
    /\ PrintedDir(out[1]) = DirAC /\ PrintedCount(out[1]) = 2
    /\ PrintedDir(out[2]) = DirAB /\ PrintedCount(out[2]) = 2

====
